---- MODULE Spec2Model ----
(***************************************************************************)
(* Model of the Matrix type of src/linear_algebra/matrix.rs.               *)
(*                                                                         *)
(* A Matrix is the record [cols, rows, matrix_flatt, is_transpose].  The   *)
(* backing Vector is a sequence; Rust offsets are 0-based, so offset i of  *)
(* the buffer is matrix_flatt[i + 1].  Elements are integers: f32          *)
(* arithmetic is exact on the small integers used here, and a division is  *)
(* only taken where its quotient is an integer.                            *)
(*                                                                         *)
(* An operation that can panic yields an outcome record: err is "none" or  *)
(* the kind of the panic, val (or mat) is the value returned (or the       *)
(* matrix as the panic leaves it).                                         *)
(***************************************************************************)
EXTENDS Integers, Sequences, FiniteSets, TLC

VARIABLES m, pre, op, ret, pc

vars == <<m, pre, op, ret, pc>>

\* Largest cols / rows handed to a constructor.
MaxCols == 3
MaxRows == 4

MaxIdx == IF MaxCols > MaxRows THEN MaxCols ELSE MaxRows

ColDims == 1..MaxCols
RowDims == 1..MaxRows
\* Coordinates handed to index, set_index, col and row: valid ones, the
\* first invalid one and beyond.
Idx == 0..MaxIdx

MinOf(S) == CHOOSE x \in S : \A y \in S : x <= y

OkVal(v) == [err |-> "none", val |-> v]
ErrNum(e) == [err |-> e, val |-> 0]
ErrVec(e) == [err |-> e, val |-> <<>>]
OkMat(x) == [err |-> "none", mat |-> x]
ErrMat(e, x) == [err |-> e, mat |-> x]

NoMatrix == [cols |-> 0, rows |-> 0, matrix_flatt |-> <<>>, is_transpose |-> FALSE]

(***************************************************************************)
(* The Vector collaborator (its source is not part of src/): the part of   *)
(* its contract that Matrix uses.                                          *)
(***************************************************************************)
\* The f32 operators + - * / on integer-valued operands.
f32_op(kind, a, b) ==
    CASE kind = "add" -> a + b
      [] kind = "sub" -> a - b
      [] kind = "mul" -> a * b
      [] kind = "div" -> a \div b

\* a / b is an integer (the only divisions the model takes).
ExactDiv(a, b) == b > 0 /\ a % b = 0

vec_index(v, i) == IF i < Len(v) THEN OkVal(v[i + 1]) ELSE ErrNum("VectorIndex")

vec_set_index(v, i, x) == [v EXCEPT ![i + 1] = x]

vec_new_zero(n) == [k \in 1..n |-> 0]

\* Vector::new_rand: n values fixed by the generator's seed.
vec_new_rand(n, seed) == [k \in 1..n |-> (k * seed) % 2]

vec_op(kind, a, b) == [k \in 1..Len(a) |-> f32_op(kind, a[k], b[k])]

vec_scalar(kind, a, k) == [i \in 1..Len(a) |-> f32_op(kind, a[i], k)]

\* The closures handed to apply_func_val: the step function of its
\* documentation (1 above 0.5, else 0) and a doubling.
lamda_val(lamda, x) == IF lamda = "step" THEN (IF x >= 1 THEN 1 ELSE 0) ELSE 2 * x

vec_apply_func(lamda, a) == [i \in 1..Len(a) |-> lamda_val(lamda, a[i])]

RECURSIVE vec_sum(_)
vec_sum(a) == IF a = <<>> THEN 0 ELSE Head(a) + vec_sum(Tail(a))

\* The exponent of the largest power of two that is at most n (n >= 1).
RECURSIVE ilog2(_)
ilog2(n) == IF n < 2 THEN 0 ELSE 1 + ilog2(n \div 2)

\* (x as f32).to_ne_bytes() on a little-endian host, for an integer x of
\* absolute value below 2^24: sign bit, exponent biased by 127 and 23
\* fraction bits, lowest byte first.
to_ne_bytes(x) ==
    IF x = 0 THEN <<0, 0, 0, 0>>
    ELSE LET a == IF x < 0 THEN 0 - x ELSE x
             e == ilog2(a)
             biased == e + 127
             frac == (a - 2 ^ e) * 2 ^ (23 - e)
         IN  << frac % 256,
                (frac \div 256) % 256,
                (biased % 2) * 128 + frac \div 65536,
                (IF x < 0 THEN 128 ELSE 0) + biased \div 2 >>

\* Vector::bytes: a four-byte length prefix, then the elements.
RECURSIVE vec_bytes_from(_, _)
vec_bytes_from(v, i) ==
    IF i > Len(v) THEN <<>> ELSE to_ne_bytes(v[i]) \o vec_bytes_from(v, i + 1)

vec_bytes(v) == to_ne_bytes(Len(v)) \o vec_bytes_from(v, 1)

(***************************************************************************)
(* Constructors                                                            *)
(***************************************************************************)
RECURSIVE Flatten(_)
Flatten(vec) == IF vec = <<>> THEN <<>> ELSE Head(vec) \o Flatten(Tail(vec))

\* Matrix::new taking cols from the inner and rows from the outer length.
new_dims_swapped(vec) ==
    LET c == Len(vec)
        r == Len(vec[1])
    IN  IF \E i \in 1..c : Len(vec[i]) # r
        THEN ErrMat("ShapeError", NoMatrix)
        ELSE OkMat([cols |-> r, rows |-> c, matrix_flatt |-> Flatten(vec),
                    is_transpose |-> FALSE])

\* Matrix::new: vec is a non-empty sequence of sequences.
new(vec) ==
    LET c == Len(vec)
        r == Len(vec[1])
    IN  IF \E i \in 1..c : Len(vec[i]) # r
        THEN ErrMat("ShapeError", NoMatrix)
        ELSE OkMat([cols |-> c, rows |-> r, matrix_flatt |-> Flatten(vec),
                    is_transpose |-> FALSE])

new_outer(vector1, vector2) ==
    new([i \in 1..Len(vector1) |->
            [j \in 1..Len(vector2) |-> vector1[i] * vector2[j]]])

new_flatt(flatt, c, r) ==
    IF c * r # Len(flatt)
    THEN ErrMat("ShapeError", NoMatrix)
    ELSE OkMat([cols |-> c, rows |-> r, matrix_flatt |-> flatt,
                is_transpose |-> FALSE])

new_rand(c, r, seed) ==
    [cols |-> c, rows |-> r, matrix_flatt |-> vec_new_rand(c * r, seed),
     is_transpose |-> FALSE]

new_zero(c, r) ==
    [cols |-> c, rows |-> r, matrix_flatt |-> vec_new_zero(c * r),
     is_transpose |-> FALSE]

(***************************************************************************)
(* Shape and access                                                        *)
(***************************************************************************)
cols(self) == IF self.is_transpose THEN self.rows ELSE self.cols

rows(self) == IF self.is_transpose THEN self.cols ELSE self.rows

is_square(self) == cols(self) = rows(self)

transpose(self) == [self EXCEPT !.is_transpose = ~self.is_transpose]

\* The coordinates index and set_index work with after the transpose swap.
swap_row(self, r, c) == IF self.is_transpose THEN c ELSE r
swap_col(self, r, c) == IF self.is_transpose THEN r ELSE c

\* index without the transpose swap.
index_no_swap(self, r, c) ==
    IF self.rows < r THEN ErrNum("IndexOutOfBounds")
    ELSE IF self.cols < c THEN ErrNum("IndexOutOfBounds")
    ELSE vec_index(self.matrix_flatt, r * self.rows + c)

index(self, r, c) ==
    LET prow == swap_row(self, r, c)
        pcol == swap_col(self, r, c)
    IN  IF self.rows < prow THEN ErrNum("IndexOutOfBounds")
        ELSE IF self.cols < pcol THEN ErrNum("IndexOutOfBounds")
        ELSE vec_index(self.matrix_flatt, prow * self.rows + pcol)

set_index(self, r, c, x) ==
    LET prow == swap_row(self, r, c)
        pcol == swap_col(self, r, c)
        i == prow * self.rows + pcol
    IN  IF self.rows < prow + 1 THEN ErrMat("IndexOutOfBounds", self)
        ELSE IF self.cols < pcol + 1 THEN ErrMat("IndexOutOfBounds", self)
        ELSE IF i >= Len(self.matrix_flatt) THEN ErrMat("VectorIndex", self)
        ELSE OkMat([self EXCEPT !.matrix_flatt = vec_set_index(@, i, x)])

get_row(self, r) ==
    IF self.rows < r + 1 THEN ErrVec("IndexOutOfBounds")
    ELSE IF \E i \in 0..(self.cols - 1) : i * self.rows + r >= Len(self.matrix_flatt)
    THEN ErrVec("VectorIndex")
    ELSE OkVal([i \in 1..self.cols |-> self.matrix_flatt[(i - 1) * self.rows + r + 1]])

get_col(self, c) ==
    IF self.cols < c + 1 THEN ErrVec("IndexOutOfBounds")
    ELSE IF (1 + c) * self.rows > Len(self.matrix_flatt)
    THEN ErrVec("VectorIndex")
    ELSE OkVal([i \in 1..self.rows |-> self.matrix_flatt[c * self.rows + i]])

col(self, c) == IF self.is_transpose THEN get_row(self, c) ELSE get_col(self, c)

row(self, r) == IF self.is_transpose THEN get_col(self, r) ELSE get_row(self, r)

RECURSIVE flatt_cols(_, _)
flatt_cols(self, i) ==
    IF i >= self.rows THEN <<>>
    ELSE col(self, i).val \o flatt_cols(self, i + 1)

\* matrix_flatt returning the stored buffer in both orientations.
matrix_flatt_stored(self) == OkVal(self.matrix_flatt)

matrix_flatt(self) ==
    IF self.is_transpose
    THEN LET bad == {i \in 0..(self.rows - 1) : col(self, i).err # "none"}
         IN  IF bad # {} THEN ErrVec(col(self, MinOf(bad)).err)
             ELSE OkVal(flatt_cols(self, 0))
    ELSE OkVal(self.matrix_flatt)

(***************************************************************************)
(* Shape checks                                                            *)
(***************************************************************************)
\* check_square with its two tests in the other order.
check_square_rows_first(mat) ==
    IF rows(mat) = 1 THEN "DegenerateMatrix"
    ELSE IF ~is_square(mat) THEN "NotSquare"
    ELSE "none"

check_square(mat) ==
    IF ~is_square(mat) THEN "NotSquare"
    ELSE IF rows(mat) = 1 THEN "DegenerateMatrix"
    ELSE "none"

\* check_vector comparing with the field rows in both orientations.
check_vector_field_rows(mat, vector) ==
    IF Len(vector) # mat.rows THEN "ShapeError" ELSE "none"

check_vector(mat, vector) ==
    IF Len(vector) # rows(mat) THEN "ShapeError" ELSE "none"

\* The two numbers of check_vector's panic message.
check_vector_msg(mat, vector) == [expected |-> mat.rows, actual |-> Len(vector)]

check_matrix(mat1, mat2) ==
    IF rows(mat1) # rows(mat2) THEN "ShapeError"
    ELSE IF cols(mat1) # cols(mat2) THEN "ShapeError"
    ELSE "none"

\* The two numbers of check_matrix's panic message: of the row panic when
\* the rows differ, else of the col panic.
check_matrix_msg(mat1, mat2) ==
    IF rows(mat1) # rows(mat2)
    THEN [expected |-> mat1.rows, actual |-> mat2.rows]
    ELSE [expected |-> mat1.cols, actual |-> mat2.cols]

(***************************************************************************)
(* Scalar and elementwise operations                                       *)
(***************************************************************************)
mul_scalar(self, scalar) == [self EXCEPT !.matrix_flatt = vec_scalar("mul", @, scalar)]

add_scalar(self, scalar) == [self EXCEPT !.matrix_flatt = vec_scalar("add", @, scalar)]

div_scalar(self, scalar) == [self EXCEPT !.matrix_flatt = vec_scalar("div", @, scalar)]

\* sub_scalar subtracting the elements from the scalar.
sub_scalar_reversed(self, scalar) ==
    [self EXCEPT !.matrix_flatt = [i \in 1..Len(@) |-> scalar - @[i]]]

sub_scalar(self, scalar) == [self EXCEPT !.matrix_flatt = vec_scalar("sub", @, scalar)]

apply_func_val(self, lamda) == [self EXCEPT !.matrix_flatt = vec_apply_func(lamda, @)]

\* dot_vec looping over the field cols instead of cols().
dot_vec_field_cols(self, vector) ==
    IF check_vector(self, vector) # "none" THEN ErrVec("ShapeError")
    ELSE LET bad == {i \in 0..(self.cols - 1) : col(self, i).err # "none"}
         IN  IF bad # {} THEN ErrVec(col(self, MinOf(bad)).err)
             ELSE OkVal([i \in 1..self.cols |->
                     vec_sum([j \in 1..Len(col(self, i - 1).val) |->
                                 vector[j] * col(self, i - 1).val[j]])])

dot_vec(self, vector) ==
    IF check_vector(self, vector) # "none" THEN ErrVec("ShapeError")
    ELSE LET bad == {i \in 0..(cols(self) - 1) : col(self, i).err # "none"}
         IN  IF bad # {} THEN ErrVec(col(self, MinOf(bad)).err)
             ELSE OkVal([i \in 1..cols(self) |->
                     vec_sum([j \in 1..Len(col(self, i - 1).val) |->
                                 vector[j] * col(self, i - 1).val[j]])])

\* The two loops of add_vec, sub_vec, mul_vec and div_vec, from iteration k
\* on: k counts the (row, col) pairs in the order the loops visit them.  A
\* panic of index or set_index ends the call with the elements written so far.
RECURSIVE vec_loop(_, _, _, _)
vec_loop(kind, self, vector, k) ==
    LET nrow == rows(self) - 1
        ncol == cols(self) - 1
    IN  IF k >= nrow * ncol THEN OkMat(self)
        ELSE LET r == k \div ncol
                 c == k % ncol
                 cur == index(self, r, c)
             IN  IF cur.err # "none" THEN ErrMat(cur.err, self)
                 ELSE LET st == set_index(self, r, c,
                                    f32_op(kind, cur.val, vec_index(vector, r).val))
                      IN  IF st.err # "none" THEN st
                          ELSE vec_loop(kind, st.mat, vector, k + 1)

add_vec(self, vector) ==
    IF check_vector(self, vector) # "none" THEN ErrMat("ShapeError", self)
    ELSE vec_loop("add", self, vector, 0)

sub_vec(self, vector) ==
    IF check_vector(self, vector) # "none" THEN ErrMat("ShapeError", self)
    ELSE vec_loop("sub", self, vector, 0)

mul_vec(self, vector) ==
    IF check_vector(self, vector) # "none" THEN ErrMat("ShapeError", self)
    ELSE vec_loop("mul", self, vector, 0)

div_vec(self, vector) ==
    IF check_vector(self, vector) # "none" THEN ErrMat("ShapeError", self)
    ELSE vec_loop("div", self, vector, 0)

\* The assignments without the reset of is_transpose.
mat_assign_keeps_flag(self, other, flatt) ==
    [cols |-> cols(other), rows |-> rows(other), matrix_flatt |-> flatt,
     is_transpose |-> self.is_transpose]

\* The four assignments that end add_mat, sub_mat, div_mat and mul_mat.
mat_assign(self, other, flatt) ==
    [cols |-> cols(other), rows |-> rows(other), matrix_flatt |-> flatt,
     is_transpose |-> FALSE]

\* self.matrix_flatt() <kind> other.matrix_flatt()
mat_flatt_op(kind, self, other) ==
    LET a == matrix_flatt(self)
        b == matrix_flatt(other)
    IN  IF a.err # "none" THEN a
        ELSE IF b.err # "none" THEN b
        ELSE IF Len(a.val) # Len(b.val) THEN ErrVec("VectorShape")
        ELSE OkVal(vec_op(kind, a.val, b.val))

\* add_mat without the assignment to self.rows.
add_mat_keeps_rows(self, other) ==
    IF check_matrix(self, other) # "none" THEN ErrMat("ShapeError", self)
    ELSE LET f == mat_flatt_op("add", self, other)
         IN  IF f.err # "none" THEN ErrMat(f.err, self)
             ELSE OkMat([mat_assign(self, other, f.val) EXCEPT !.rows = self.rows])

add_mat(self, other) ==
    IF check_matrix(self, other) # "none" THEN ErrMat("ShapeError", self)
    ELSE LET f == mat_flatt_op("add", self, other)
         IN  IF f.err # "none" THEN ErrMat(f.err, self)
             ELSE OkMat(mat_assign(self, other, f.val))

sub_mat(self, other) ==
    IF check_matrix(self, other) # "none" THEN ErrMat("ShapeError", self)
    ELSE LET f == mat_flatt_op("sub", self, other)
         IN  IF f.err # "none" THEN ErrMat(f.err, self)
             ELSE OkMat(mat_assign(self, other, f.val))

div_mat(self, other) ==
    IF check_matrix(self, other) # "none" THEN ErrMat("ShapeError", self)
    ELSE LET f == mat_flatt_op("div", self, other)
         IN  IF f.err # "none" THEN ErrMat(f.err, self)
             ELSE OkMat(mat_assign(self, other, f.val))

mul_mat(self, other) ==
    IF check_matrix(self, other) # "none" THEN ErrMat("ShapeError", self)
    ELSE LET f == mat_flatt_op("mul", self, other)
         IN  IF f.err # "none" THEN ErrMat(f.err, self)
             ELSE OkMat(mat_assign(self, other, f.val))

(***************************************************************************)
(* Determinant                                                             *)
(***************************************************************************)
\* finde_sub scans i over 0..cols()-1 and j over 0..rows()-1 and keeps
\* index(i, j) unless i = c or j = r.  It is only called by det, on a square
\* matrix, where index(i, j) reads offset i*n + j < n*n and cannot fail.
finde_sub(self, r, c) ==
    LET nc == cols(self)
        nr == rows(self)
        kept == SelectSeq([k \in 1..(nc * nr) |-> k - 1],
                          LAMBDA k : ~((k \div nr) = c \/ (k % nr) = r))
        flatt == [x \in 1..Len(kept) |->
                     index(self, kept[x] \div nr, kept[x] % nr).val]
    IN  new_flatt(flatt, nc - 1, nr - 1).mat

RECURSIVE det_val(_)
RECURSIVE det_sum(_, _)
\* The for loop of det from column c on: the terms' sum (sign is 1 at c = 0
\* and flips at every column).
det_sum(self, c) ==
    IF c >= cols(self) THEN 0
    ELSE det_val(finde_sub(self, 0, c)) * (IF c % 2 = 0 THEN 1 ELSE 0 - 1)
             * index(self, 0, c).val
         + det_sum(self, c + 1)

\* det after check_square has passed.
det_val(self) ==
    IF rows(self) = 2
    THEN index(self, 0, 0).val * index(self, 1, 1).val
         - index(self, 1, 0).val * index(self, 0, 1).val
    ELSE det_sum(self, 0)

det(self) ==
    IF check_square(self) # "none" THEN ErrNum(check_square(self))
    ELSE OkVal(det_val(self))

\* inv never returns: it panics in check_square, on a zero determinant, or
\* in todo!().
inv(self) ==
    IF check_square(self) # "none" THEN ErrMat(check_square(self), self)
    ELSE IF det(self).err # "none" THEN ErrMat(det(self).err, self)
    ELSE IF det(self).val = 0 THEN ErrMat("SingularMatrix", self)
    ELSE ErrMat("NotImplemented", self)

(***************************************************************************)
(* Serialization (feature gpu)                                             *)
(***************************************************************************)
\* bytes writing cols() before rows().
bytes_cols_first(self) ==
    LET f == matrix_flatt(self)
    IN  IF f.err # "none" THEN ErrVec(f.err)
        ELSE OkVal(to_ne_bytes(cols(self)) \o to_ne_bytes(rows(self))
                   \o SubSeq(vec_bytes(f.val), 5, Len(vec_bytes(f.val))))

bytes(self) ==
    LET f == matrix_flatt(self)
    IN  IF f.err # "none" THEN ErrVec(f.err)
        ELSE OkVal(to_ne_bytes(rows(self)) \o to_ne_bytes(cols(self))
                   \o SubSeq(vec_bytes(f.val), 5, Len(vec_bytes(f.val))))

(***************************************************************************)
(* Inputs                                                                  *)
(***************************************************************************)
Ramp(n) == [k \in 1..n |-> k]

Zeros(n) == [k \in 1..n |-> 0]

\* c inner sequences of length r, all elements different.
NestedRamp(c, r) == [i \in 1..c |-> [j \in 1..r |-> (i - 1) * r + j]]

\* As NestedRamp, the last inner sequence one element longer.
Ragged(c, r) == [i \in 1..c |-> [j \in 1..(IF i = c THEN r + 1 ELSE r) |-> (i - 1) * r + j]]

\* The matrices of the tests and of the documentation examples.
Examples ==
    { <<<<1, 2>>, <<3, 4>>>>,
      <<<<2, 0 - 3, 1>>, <<2, 0, 0 - 1>>, <<1, 4, 5>>>>,
      <<<<2, 0 - 3, 1>>, <<2, 0, 0 - 1>>, <<1, 4, 5>>, <<2, 0, 0 - 1>>>>,
      <<<<2, 3>>, <<7, 4>>>>,
      <<<<2, 3, 5>>, <<7, 1, 4>>>>,
      <<<<3, 2, 4>>, <<4, 5, 6>>>>,
      <<<<1, 0 - 1, 2>>, <<0, 0 - 3, 1>>>>,
      <<<<2, 0 - 3, 1>>, <<2, 0, 0 - 1>>>>,
      <<<<2, 3, 5>>, <<7, 1, 4, 1>>>> }

NewInputs ==
    Examples \cup {NestedRamp(c, r) : c \in ColDims, r \in RowDims}
             \cup {Ragged(c, r) : c \in 2..MaxCols, r \in RowDims}

VecExamples == { <<2, 1, 0>>, <<2, 1>>, <<2, 4, 6>>, <<2, 4, 3>>, <<2, 7, 9>> }

\* The vectors handed to a matrix: of the length that fits, one longer, and
\* the vectors of the tests.
VecInputs(self) == {Ramp(rows(self)), Ramp(rows(self) + 1)} \cup VecExamples

\* The operands handed to add_mat, ...: of the dimensions of self in either
\* orientation, and with one more column or row.
MatInputs(self) ==
    { new_flatt(Ramp(cols(self) * rows(self)), cols(self), rows(self)).mat,
      transpose(new_flatt(Ramp(cols(self) * rows(self)), rows(self), cols(self)).mat),
      new_zero(cols(self) + 1, rows(self)),
      transpose(new_zero(cols(self), rows(self) + 1)) }

Scalars == {0, 1, 2}

SetVals == {9}

Lamdas == {"step", "double"}

Seeds == {0, 1}

(***************************************************************************)
(* The inputs of runs of any length: all zero (and divisors one), so that  *)
(* every operation maps a zero matrix to a zero matrix.                    *)
(***************************************************************************)
ZeroMatInputs(self) ==
    { new_zero(cols(self), rows(self)),
      transpose(new_zero(rows(self), cols(self))),
      new_zero(cols(self) + 1, rows(self)) }

OneMatInputs(self) ==
    { new_flatt([k \in 1..(cols(self) * rows(self)) |-> 1], cols(self), rows(self)).mat,
      transpose(new_flatt([k \in 1..(cols(self) * rows(self)) |-> 1],
                          rows(self), cols(self)).mat) }

(***************************************************************************)
(* State: m is the matrix, pre its value before the last call, op the last *)
(* call and its arguments, ret what the call returned (err: the panic),    *)
(* pc the position of the run: "constructed", "called" or "failed".        *)
(***************************************************************************)
Call(name) ==
    [name |-> name, r |-> 0, c |-> 0, k |-> 0, vec |-> <<>>, other |-> NoMatrix,
     nested |-> <<>>, lamda |-> ""]

\* The state after a constructor returned out.
Constructed(call, out) ==
    /\ m = out.mat
    /\ pre = out.mat
    /\ op = call
    /\ ret = ErrNum(out.err)
    /\ pc = IF out.err = "none" THEN "constructed" ELSE "failed"

\* A call on m may start: in a run of any length (seq) after every call that
\* returned, else on a constructed (and possibly transposed) matrix.
Ready(seq) == IF seq THEN pc # "failed" ELSE pc = "constructed"

\* A method taking &mut self returned out.
Mutated(call, out) ==
    /\ pre' = m
    /\ op' = call
    /\ ret' = ErrNum(out.err)
    /\ m' = out.mat
    /\ pc' = IF out.err = "none" THEN "called" ELSE "failed"

\* A method taking &self returned out.
Observed(call, out) ==
    /\ pre' = m
    /\ op' = call
    /\ ret' = out
    /\ m' = m
    /\ pc' = IF out.err = "none" THEN "called" ELSE "failed"

New(inputs) ==
    \E v \in inputs : Constructed([Call("new") EXCEPT !.nested = v], new(v))

NewOuter(inputs) ==
    \E a \in inputs, b \in inputs :
        Constructed([Call("new_outer") EXCEPT !.vec = a, !.nested = <<b>>],
                    new_outer(a, b))

NewFlatt(seq) ==
    \E c \in ColDims, r \in RowDims, extra \in (IF seq THEN {0} ELSE {0, 1}) :
        LET flatt == IF seq THEN Zeros(c * r) ELSE Ramp(c * r + extra)
        IN  Constructed([Call("new_flatt") EXCEPT !.c = c, !.r = r, !.vec = flatt],
                        new_flatt(flatt, c, r))

NewRand(seeds) ==
    \E c \in ColDims, r \in RowDims, seed \in seeds :
        Constructed([Call("new_rand") EXCEPT !.c = c, !.r = r, !.k = seed],
                    OkMat(new_rand(c, r, seed)))

NewZero ==
    \E c \in ColDims, r \in RowDims :
        Constructed([Call("new_zero") EXCEPT !.c = c, !.r = r], OkMat(new_zero(c, r)))

Transpose ==
    /\ pc # "failed"
    /\ pre' = m
    /\ op' = Call("transpose")
    /\ ret' = ErrNum("none")
    /\ m' = transpose(m)
    /\ pc' = pc

Index ==
    /\ Ready(FALSE)
    /\ \E r \in Idx, c \in Idx :
        Observed([Call("index") EXCEPT !.r = r, !.c = c], index(m, r, c))

SetIndex(seq, vals) ==
    /\ Ready(seq)
    /\ \E r \in Idx, c \in Idx, x \in vals :
        Mutated([Call("set_index") EXCEPT !.r = r, !.c = c, !.k = x],
                set_index(m, r, c, x))

Col ==
    /\ Ready(FALSE)
    /\ \E c \in Idx : Observed([Call("col") EXCEPT !.c = c], col(m, c))

Row ==
    /\ Ready(FALSE)
    /\ \E r \in Idx : Observed([Call("row") EXCEPT !.r = r], row(m, r))

MatrixFlatt ==
    /\ Ready(FALSE)
    /\ Observed(Call("matrix_flatt"), matrix_flatt(m))

Bytes ==
    /\ Ready(FALSE)
    /\ Observed(Call("bytes"), bytes(m))

Det ==
    /\ Ready(FALSE)
    /\ Observed(Call("det"), det(m))

Inv(seq) ==
    /\ Ready(seq)
    /\ Mutated(Call("inv"), inv(m))

DotVec ==
    /\ Ready(FALSE)
    /\ \E v \in VecInputs(m) : Observed([Call("dot_vec") EXCEPT !.vec = v], dot_vec(m, v))

\* Every element of a is an integer multiple of the element of b it meets.
ExactDivAll(a, b) == \A i \in 1..Len(a) : \A j \in 1..Len(b) : ExactDiv(a[i], b[j])

ExactDivEach(a, b) ==
    Len(a) = Len(b) => \A i \in 1..Len(a) : ExactDiv(a[i], b[i])

MulScalar(seq, ks) ==
    /\ Ready(seq)
    /\ \E k \in ks : Mutated([Call("mul_scalar") EXCEPT !.k = k], OkMat(mul_scalar(m, k)))

AddScalar(seq, ks) ==
    /\ Ready(seq)
    /\ \E k \in ks : Mutated([Call("add_scalar") EXCEPT !.k = k], OkMat(add_scalar(m, k)))

DivScalar(seq, ks) ==
    /\ Ready(seq)
    /\ \E k \in ks :
        /\ ExactDivAll(m.matrix_flatt, <<k>>)
        /\ Mutated([Call("div_scalar") EXCEPT !.k = k], OkMat(div_scalar(m, k)))

SubScalar(seq, ks) ==
    /\ Ready(seq)
    /\ \E k \in ks : Mutated([Call("sub_scalar") EXCEPT !.k = k], OkMat(sub_scalar(m, k)))

ApplyFuncVal(seq) ==
    /\ Ready(seq)
    /\ \E f \in Lamdas :
        Mutated([Call("apply_func_val") EXCEPT !.lamda = f], OkMat(apply_func_val(m, f)))

AddVec(seq, vs) ==
    /\ Ready(seq)
    /\ \E v \in vs : Mutated([Call("add_vec") EXCEPT !.vec = v], add_vec(m, v))

SubVec(seq, vs) ==
    /\ Ready(seq)
    /\ \E v \in vs : Mutated([Call("sub_vec") EXCEPT !.vec = v], sub_vec(m, v))

MulVec(seq, vs) ==
    /\ Ready(seq)
    /\ \E v \in vs : Mutated([Call("mul_vec") EXCEPT !.vec = v], mul_vec(m, v))

DivVec(seq, vs) ==
    /\ Ready(seq)
    /\ \E v \in vs :
        /\ ExactDivAll(m.matrix_flatt, v)
        /\ Mutated([Call("div_vec") EXCEPT !.vec = v], div_vec(m, v))

AddMat(seq, others) ==
    /\ Ready(seq)
    /\ \E other \in others : Mutated([Call("add_mat") EXCEPT !.other = other], add_mat(m, other))

SubMat(seq, others) ==
    /\ Ready(seq)
    /\ \E other \in others : Mutated([Call("sub_mat") EXCEPT !.other = other], sub_mat(m, other))

DivMat(seq, others) ==
    /\ Ready(seq)
    /\ \E other \in others :
        /\ ExactDivEach(matrix_flatt(m).val, matrix_flatt(other).val)
        /\ Mutated([Call("div_mat") EXCEPT !.other = other], div_mat(m, other))

MulMat(seq, others) ==
    /\ Ready(seq)
    /\ \E other \in others : Mutated([Call("mul_mat") EXCEPT !.other = other], mul_mat(m, other))

(***************************************************************************)
(* Spec: a run constructs a matrix, transposes it any number of times and  *)
(* makes one call on it.                                                   *)
(***************************************************************************)
Init ==
    \/ New(NewInputs)
    \/ NewOuter(VecExamples)
    \/ NewFlatt(FALSE)
    \/ NewRand(Seeds)
    \/ NewZero

Next ==
    \/ Transpose
    \/ Index
    \/ SetIndex(FALSE, SetVals)
    \/ Col
    \/ Row
    \/ MatrixFlatt
    \/ Bytes
    \/ Det
    \/ Inv(FALSE)
    \/ DotVec
    \/ MulScalar(FALSE, Scalars)
    \/ AddScalar(FALSE, Scalars)
    \/ DivScalar(FALSE, Scalars)
    \/ SubScalar(FALSE, Scalars)
    \/ ApplyFuncVal(FALSE)
    \/ AddVec(FALSE, VecInputs(m))
    \/ SubVec(FALSE, VecInputs(m))
    \/ MulVec(FALSE, VecInputs(m))
    \/ DivVec(FALSE, VecInputs(m))
    \/ AddMat(FALSE, MatInputs(m))
    \/ SubMat(FALSE, MatInputs(m))
    \/ DivMat(FALSE, MatInputs(m))
    \/ MulMat(FALSE, MatInputs(m))

Spec == Init /\ [][Next]_vars

(***************************************************************************)
(* SpecSeq: runs of any length.  Every constructor, then the methods       *)
(* taking &mut self in any order, on all-zero inputs: the reachable        *)
(* matrices are the zero matrices of every shape and orientation the calls *)
(* produce.                                                                *)
(***************************************************************************)
ZeroVecs(self) == {Zeros(rows(self)), Zeros(rows(self) + 1)}

InitSeq ==
    \/ New({[i \in 1..c |-> Zeros(r)] : c \in ColDims, r \in RowDims})
    \/ NewOuter({Zeros(n) : n \in ColDims})
    \/ NewFlatt(TRUE)
    \/ NewRand({0})
    \/ NewZero

NextSeq ==
    \/ Transpose
    \/ SetIndex(TRUE, {0})
    \/ Inv(TRUE)
    \/ MulScalar(TRUE, Scalars)
    \/ AddScalar(TRUE, {0})
    \/ DivScalar(TRUE, {1, 2})
    \/ SubScalar(TRUE, {0})
    \/ ApplyFuncVal(TRUE)
    \/ AddVec(TRUE, ZeroVecs(m))
    \/ SubVec(TRUE, ZeroVecs(m))
    \/ MulVec(TRUE, {Ramp(rows(m))})
    \/ DivVec(TRUE, {Ramp(rows(m))})
    \/ AddMat(TRUE, ZeroMatInputs(m))
    \/ SubMat(TRUE, ZeroMatInputs(m))
    \/ DivMat(TRUE, OneMatInputs(m))
    \/ MulMat(TRUE, ZeroMatInputs(m))

SpecSeq == InitSeq /\ [][NextSeq]_vars

(***************************************************************************)
(* Claims                                                                  *)
(***************************************************************************)
VecOps == {"add_vec", "sub_vec", "mul_vec", "div_vec"}
MatOps == {"add_mat", "sub_mat", "mul_mat", "div_mat"}

\* The f32 operator of a call: "add_vec" and "add_mat" add, and so on.
KindOf(name) ==
    CASE name \in {"add_vec", "add_mat"} -> "add"
      [] name \in {"sub_vec", "sub_mat"} -> "sub"
      [] name \in {"mul_vec", "mul_mat"} -> "mul"
      [] name \in {"div_vec", "div_mat"} -> "div"

\* C1: after every constructor and every sequence of calls that returned,
\* the stored buffer has length cols*rows and matrix_flatt() returns a vector
\* of length cols()*rows(), in either orientation.
ShapeInvariant ==
    pc # "failed" =>
        /\ Len(m.matrix_flatt) = m.cols * m.rows
        /\ matrix_flatt(m).err = "none"
        /\ Len(matrix_flatt(m).val) = cols(m) * rows(m)

\* add_mat has returned on a transposed, non-square self and a transposed
\* other; self had more columns than any constructor was asked for, the
\* shape an earlier add_mat on a transposed matrix left.
ShapeWitness ==
    /\ op.name = "add_mat"
    /\ pc = "called"
    /\ pre.is_transpose
    /\ op.other.is_transpose
    /\ pre.cols > MaxCols

\* C2: transpose() exchanges cols() and rows(), index(r, c) gives what
\* index(c, r) gave before (value or failure), col(i) is the former row(i),
\* row(i) the former col(i), and the stored buffer is not modified.
TransposeSwap ==
    op.name = "transpose" =>
        /\ cols(m) = rows(pre)
        /\ rows(m) = cols(pre)
        /\ \A r \in Idx, c \in Idx : index(m, r, c) = index(pre, c, r)
        /\ \A i \in Idx : col(m, i) = row(pre, i) /\ row(m, i) = col(pre, i)
        /\ m.matrix_flatt = pre.matrix_flatt

\* A non-square matrix has been transposed; index succeeds at one
\* coordinate pair and fails at another.
TransposeWitness ==
    /\ op.name = "transpose"
    /\ m.is_transpose
    /\ m.cols # m.rows
    /\ \E r \in Idx, c \in Idx : index(m, r, c).err = "none" /\ index(m, r, c).val # 0
    /\ \E r \in Idx, c \in Idx : index(m, r, c).err # "none"

\* C3: for all r < rows() and c < cols(), index(r, c) returns position c of
\* row(r) and position r of col(c), in both orientations; untransposed this
\* is the buffer element at offset c*rows + r.
LayoutConsistent ==
    pc # "failed" =>
        \A r \in 0..(rows(m) - 1), c \in 0..(cols(m) - 1) :
            /\ index(m, r, c) = OkVal(row(m, r).val[c + 1])
            /\ index(m, r, c) = OkVal(col(m, c).val[r + 1])
            /\ ~m.is_transpose => index(m, r, c) = OkVal(m.matrix_flatt[c * m.rows + r + 1])

\* C4: after m = new(v), index(i, j) returns v[i][j] for every i < len(v)
\* and j < len(v[0]), for every shape of v.
NewThenIndex ==
    (op.name = "new" /\ pc = "constructed") =>
        \A i \in 1..Len(op.nested), j \in 1..Len(op.nested[1]) :
            index(m, i - 1, j - 1) = OkVal(op.nested[i][j])

\* The determinant of the n x n matrix a (a function on (0..n-1) x (0..n-1))
\* by cofactor expansion along row 0: the term of a[0, c] is the determinant
\* of a without row 0 and column c.
RECURSIVE Determinant(_, _)
Determinant(a, n) ==
    IF n = 1 THEN a[<<0, 0>>]
    ELSE LET minor(c) == [x \in (0..(n - 2)) \X (0..(n - 2)) |->
                             a[<<x[1] + 1, IF x[2] < c THEN x[2] ELSE x[2] + 1>>]]
             term(c) == (IF c % 2 = 0 THEN 1 ELSE 0 - 1) * a[<<0, c>>]
                            * Determinant(minor(c), n - 1)
             sum[c \in 0..n] == IF c = n THEN 0 ELSE term(c) + sum[c + 1]
         IN  sum[0]

\* The elements of a square matrix as index returns them.
Elements(self) ==
    [x \in (0..(rows(self) - 1)) \X (0..(cols(self) - 1)) |-> index(self, x[1], x[2]).val]

\* C5: det() of a square matrix with at least two rows is its determinant.
DetIsDeterminant ==
    (op.name = "det" /\ ret.err = "none") =>
        ret.val = Determinant(Elements(m), rows(m))

\* After the transpose swap the row is above rows-1 or the col above cols-1.
OutOfBounds(self, r, c) ==
    swap_row(self, r, c) > self.rows - 1 \/ swap_col(self, r, c) > self.cols - 1

\* C6: index and set_index both fail with IndexOutOfBounds whenever, after
\* the transpose swap, row > rows-1 or col > cols-1; they reject the same
\* coordinate pairs; a rejected set_index leaves the matrix unchanged.
BoundsRejected ==
    /\ (op.name = "index" /\ OutOfBounds(pre, op.r, op.c)) => ret.err = "IndexOutOfBounds"
    /\ (op.name = "set_index" /\ OutOfBounds(pre, op.r, op.c)) =>
            ret.err = "IndexOutOfBounds" /\ m = pre
    /\ op.name = "index" =>
            (ret.err = "IndexOutOfBounds"
                <=> set_index(pre, op.r, op.c, 0).err = "IndexOutOfBounds")

\* add_vec (sub_vec, mul_vec, div_vec) with a vector of length rows() returns.
VecOpReturns ==
    (op.name \in VecOps /\ Len(op.vec) = rows(pre)) => ret.err = "none"

\* What the call has done when it returned.
VecOpEffect ==
    (op.name \in VecOps /\ Len(op.vec) = rows(pre) /\ ret.err = "none") =>
        /\ \A r \in 0..(rows(pre) - 1), c \in 0..(cols(pre) - 1) :
              index(m, r, c) =
                  IF r < rows(pre) - 1 /\ c < cols(pre) - 1 /\ index(pre, r, c).err = "none"
                  THEN OkVal(f32_op(KindOf(op.name), index(pre, r, c).val, op.vec[r + 1]))
                  ELSE index(pre, r, c)
        /\ cols(m) = cols(pre)
        /\ rows(m) = rows(pre)
        /\ m.is_transpose = pre.is_transpose

\* C7: for a matrix with rows() >= 1 and cols() >= 1 and a vector v of length
\* rows(), add_vec(v) (sub_vec, mul_vec, div_vec) returns; afterwards
\* index(row, col) is the former index(row, col) + v[row] for row < rows()-1
\* and col < cols()-1, every other element is unchanged, and cols(), rows()
\* and is_transpose are unchanged.
VecOpBroadcast == VecOpReturns /\ VecOpEffect

\* C8: for self and other of equal logical dimensions, in any combination
\* of orientations, add_mat (sub_mat, mul_mat, div_mat) returns with
\* is_transpose() false and cols() and rows() as before, and position j of
\* col(i) is the former col(i)[j] of self combined with col(i)[j] of other.
MatOpElementwise ==
    (op.name \in MatOps /\ cols(pre) = cols(op.other) /\ rows(pre) = rows(op.other)) =>
        /\ ret.err = "none"
        /\ ~m.is_transpose
        /\ cols(m) = cols(pre)
        /\ rows(m) = rows(pre)
        /\ \A i \in 0..(cols(m) - 1) :
            /\ col(m, i).err = "none"
            /\ Len(col(m, i).val) = rows(m)
            /\ \A j \in 1..rows(m) :
                  col(m, i).val[j] =
                      f32_op(KindOf(op.name), col(pre, i).val[j], col(op.other, i).val[j])

\* sub_mat has returned on a transposed non-square self and an untransposed
\* other with elements that differ from one another.
MatOpWitness ==
    /\ op.name = "sub_mat"
    /\ ret.err = "none"
    /\ pre.is_transpose
    /\ ~op.other.is_transpose
    /\ pre.cols # pre.rows
    /\ pre.cols > 1
    /\ pre.rows > 1
    /\ pre.matrix_flatt[1] # pre.matrix_flatt[2]

\* C9: in both orientations matrix_flatt() is col(0), col(1), ...,
\* col(cols()-1) concatenated; new([[2,3,5],[7,1,4]]) flattens to
\* [2,3,5,7,1,4] and after transpose() to [2,7,3,1,5,4]; the matrix is not
\* modified.
FlattIsColumns ==
    op.name = "matrix_flatt" =>
        /\ ret.err = "none"
        /\ Len(ret.val) = cols(m) * rows(m)
        /\ \A i \in 0..(cols(m) - 1), j \in 0..(rows(m) - 1) :
              ret.val[i * rows(m) + j + 1] = col(m, i).val[j + 1]
        /\ m = pre
        /\ (m.cols = 2 /\ m.rows = 3 /\ m.matrix_flatt = <<2, 3, 5, 7, 1, 4>>) =>
              ret.val = IF m.is_transpose THEN <<2, 7, 3, 1, 5, 4>>
                                          ELSE <<2, 3, 5, 7, 1, 4>>

\* matrix_flatt() has returned on the transposed example.
FlattWitness ==
    /\ op.name = "matrix_flatt"
    /\ m.is_transpose
    /\ ret.val = <<2, 7, 3, 1, 5, 4>>

\* The sum over j < n of a[j] * b[j].
RECURSIVE DotProduct(_, _, _)
DotProduct(a, b, n) == IF n = 0 THEN 0 ELSE a[n] * b[n] + DotProduct(a, b, n - 1)

\* C10: for a vector v of length rows(), dot_vec(v) returns a vector of
\* length cols() whose element i is the sum over j < rows() of
\* col(i)[j] * v[j]; the matrix is not modified.
DotVecColumns ==
    (op.name = "dot_vec" /\ Len(op.vec) = rows(pre)) =>
        /\ ret.err = "none"
        /\ Len(ret.val) = cols(pre)
        /\ \A i \in 0..(cols(pre) - 1) :
              ret.val[i + 1] = DotProduct(col(pre, i).val, op.vec, rows(pre))
        /\ m = pre
        /\ (~pre.is_transpose /\ pre.matrix_flatt = <<1, 0 - 1, 2, 0, 0 - 3, 1>>
                /\ op.vec = <<2, 1, 0>>) => ret.val = <<1, 0 - 3>>

\* dot_vec has returned on a transposed non-square matrix with a result
\* that is not all zero.
DotVecWitness ==
    /\ op.name = "dot_vec"
    /\ ret.err = "none"
    /\ m.is_transpose
    /\ m.cols # m.rows
    /\ Len(ret.val) > 1
    /\ ret.val[1] # ret.val[2]

\* C11: add_vec, sub_vec, mul_vec, div_vec and dot_vec fail with ShapeError
\* whenever the vector's length differs from rows(), add_mat, sub_mat,
\* mul_mat and div_mat whenever rows() or cols() of self and other differ
\* (logical dimensions of both); the matrix is then unchanged.
ShapeMismatch ==
    /\ (op.name \in VecOps \cup {"dot_vec"} /\ Len(op.vec) # rows(pre)) =>
            ret.err = "ShapeError" /\ m = pre
    /\ (op.name \in MatOps
            /\ (rows(pre) # rows(op.other) \/ cols(pre) # cols(op.other))) =>
            ret.err = "ShapeError" /\ m = pre

\* add_vec has failed on a transposed non-square matrix with a vector as
\* long as the field rows, which is not rows().
ShapeMismatchWitness ==
    /\ op.name = "add_vec"
    /\ ret.err = "ShapeError"
    /\ pre.is_transpose
    /\ Len(op.vec) = pre.rows
    /\ pre.cols > 1

\* C12: the expected size in a ShapeError message is the dimension of self
\* that was compared (rows() for a vector operand, rows() or cols() for a
\* matrix operand), the actual size is the operand's compared size, and the
\* two numbers differ, also when self or other is transposed.
ShapeMessage ==
    /\ (op.name \in VecOps \cup {"dot_vec"} /\ ret.err = "ShapeError") =>
            /\ check_vector_msg(pre, op.vec).expected = rows(pre)
            /\ check_vector_msg(pre, op.vec).actual = Len(op.vec)
            /\ check_vector_msg(pre, op.vec).expected
                    # check_vector_msg(pre, op.vec).actual
    /\ (op.name \in MatOps /\ ret.err = "ShapeError") =>
            /\ check_matrix_msg(pre, op.other).expected =
                    IF rows(pre) # rows(op.other) THEN rows(pre) ELSE cols(pre)
            /\ check_matrix_msg(pre, op.other).actual =
                    IF rows(pre) # rows(op.other) THEN rows(op.other) ELSE cols(op.other)
            /\ check_matrix_msg(pre, op.other).expected
                    # check_matrix_msg(pre, op.other).actual

\* C13: det() and inv() fail with NotSquare when cols() # rows() (det() of
\* the 4x3 matrix of the tests), with DegenerateMatrix on a 1x1 matrix;
\* inv() on a square matrix of size >= 2 fails with SingularMatrix when
\* det() is 0 and else with NotImplemented, so it never returns; the matrix
\* is unchanged in every case.
ValidateBeforeCompute ==
    /\ op.name \in {"det", "inv"} =>
            /\ cols(pre) # rows(pre) => ret.err = "NotSquare"
            /\ (cols(pre) = 1 /\ rows(pre) = 1) => ret.err = "DegenerateMatrix"
            /\ m = pre
    /\ (op.name = "det" /\ pre.cols = 4 /\ pre.rows = 3) => ret.err = "NotSquare"
    /\ op.name = "inv" =>
            /\ ret.err # "none"
            /\ (cols(pre) = rows(pre) /\ rows(pre) >= 2) =>
                    /\ det(pre).err = "none"
                    /\ ret.err = IF det(pre).val = 0 THEN "SingularMatrix"
                                                     ELSE "NotImplemented"

\* inv has failed with NotSquare on a matrix with one row and several
\* columns, where both tests of check_square would fire.
ValidateWitness ==
    /\ op.name = "inv"
    /\ ret.err = "NotSquare"
    /\ rows(pre) = 1
    /\ cols(pre) > 1

\* C14: new(v) for a non-empty v fails with ShapeError if an inner sequence
\* is not as long as the first; else the matrix is untransposed, cols() is
\* the number of inner sequences, rows() the length of the first, and
\* matrix_flatt() the inner sequences one after the other, so col(i) = v[i].
NewFromNested ==
    op.name = "new" =>
        IF \E i \in 1..Len(op.nested) : Len(op.nested[i]) # Len(op.nested[1])
        THEN ret.err = "ShapeError" /\ pc = "failed"
        ELSE /\ ret.err = "none"
             /\ ~m.is_transpose
             /\ cols(m) = Len(op.nested)
             /\ rows(m) = Len(op.nested[1])
             /\ matrix_flatt(m).err = "none"
             /\ Len(matrix_flatt(m).val) = Len(op.nested) * Len(op.nested[1])
             /\ \A i \in 1..Len(op.nested), j \in 1..Len(op.nested[1]) :
                   matrix_flatt(m).val[(i - 1) * Len(op.nested[1]) + j] = op.nested[i][j]
             /\ \A i \in 1..Len(op.nested) : col(m, i - 1) = OkVal(op.nested[i])

\* new has returned the non-square matrix of the col test.
NewWitness ==
    /\ op.name = "new"
    /\ pc = "constructed"
    /\ op.nested = <<<<3, 2, 4>>, <<4, 5, 6>>>>
    /\ col(m, 1) = OkVal(<<4, 5, 6>>)

ScalarOps == {"add_scalar", "sub_scalar", "mul_scalar", "div_scalar"}

\* The f32 operator of a scalar call.
ScalarKind(name) ==
    CASE name = "add_scalar" -> "add"
      [] name = "sub_scalar" -> "sub"
      [] name = "mul_scalar" -> "mul"
      [] name = "div_scalar" -> "div"

\* The scalar call name made on self.
ScalarCall(name, self, k) ==
    CASE name = "add_scalar" -> add_scalar(self, k)
      [] name = "sub_scalar" -> sub_scalar(self, k)
      [] name = "mul_scalar" -> mul_scalar(self, k)
      [] name = "div_scalar" -> div_scalar(self, k)

\* C15: add_scalar, sub_scalar, mul_scalar and div_scalar(k) replace every
\* element x by x op k in either orientation and leave cols(), rows() and
\* is_transpose unchanged; add_scalar(0) and mul_scalar(1) leave the matrix
\* as it was; the scalar operation followed by transpose() gives the same
\* matrix as transpose() followed by the scalar operation.
ScalarBroadcast ==
    op.name \in ScalarOps =>
        /\ ret.err = "none"
        /\ cols(m) = cols(pre)
        /\ rows(m) = rows(pre)
        /\ m.is_transpose = pre.is_transpose
        /\ Len(m.matrix_flatt) = Len(pre.matrix_flatt)
        /\ \A i \in 0..(cols(pre) - 1), j \in 1..rows(pre) :
              col(m, i).val[j] = f32_op(ScalarKind(op.name), col(pre, i).val[j], op.k)
        /\ ((op.name = "add_scalar" /\ op.k = 0) \/ (op.name = "mul_scalar" /\ op.k = 1))
                => m = pre
        /\ transpose(m) = ScalarCall(op.name, transpose(pre), op.k)
        /\ matrix_flatt(transpose(m)) =
                matrix_flatt(ScalarCall(op.name, transpose(pre), op.k))

\* sub_scalar(2) has returned on a transposed non-square matrix.
ScalarWitness ==
    /\ op.name = "sub_scalar"
    /\ op.k = 2
    /\ pre.is_transpose
    /\ pre.cols # pre.rows
    /\ pre.cols > 1
    /\ pre.rows > 1
    /\ m.matrix_flatt[1] # m.matrix_flatt[2]

\* The four bytes word, lowest byte first, are the 32-bit float x: sign
\* bit, and (2^23 + fraction) * 2^(exponent - 127) = |x| * 2^23.
IsFloat32(word, x) ==
    LET biased == (word[4] % 128) * 2 + word[3] \div 128
        frac == (word[3] % 128) * 65536 + word[2] * 256 + word[1]
    IN  /\ Len(word) = 4
        /\ \A i \in 1..4 : word[i] \in 0..255
        /\ IF x = 0 THEN word = <<0, 0, 0, 0>>
           ELSE /\ (word[4] >= 128) = (x < 0)
                /\ biased >= 127
                /\ biased <= 134
                /\ (8388608 + frac) * 2 ^ (biased - 127)
                       = (IF x < 0 THEN 0 - x ELSE x) * 8388608

\* C16: bytes() is 2 + rows()*cols() four-byte words: rows() as a 32-bit
\* float, cols() likewise, then the elements of matrix_flatt() in order,
\* without the Vector's length prefix; bytes() of [[2,3],[7,4]] is
\* [0,0,0,64, 0,0,0,64, 0,0,0,64, 0,0,64,64, 0,0,224,64, 0,0,128,64]; the
\* matrix is unchanged.
BytesLayout ==
    op.name = "bytes" =>
        /\ ret.err = "none"
        /\ Len(ret.val) = (2 + rows(m) * cols(m)) * 4
        /\ IsFloat32(SubSeq(ret.val, 1, 4), rows(m))
        /\ IsFloat32(SubSeq(ret.val, 5, 8), cols(m))
        /\ \A k \in 1..(rows(m) * cols(m)) :
              IsFloat32(SubSeq(ret.val, 4 * k + 5, 4 * k + 8), matrix_flatt(m).val[k])
        /\ (~m.is_transpose /\ m.cols = 2 /\ m.matrix_flatt = <<2, 3, 7, 4>>) =>
              ret.val = <<0, 0, 0, 64, 0, 0, 0, 64, 0, 0, 0, 64, 0, 0, 64, 64,
                          0, 0, 224, 64, 0, 0, 128, 64>>
        /\ m = pre

\* bytes() has returned on a transposed non-square matrix with a negative
\* element.
BytesWitness ==
    /\ op.name = "bytes"
    /\ ret.err = "none"
    /\ m.is_transpose
    /\ m.cols # m.rows
    /\ \E k \in 1..Len(m.matrix_flatt) : m.matrix_flatt[k] < 0

\* set_index lets the coordinate pair pass its bounds check.
Accepted(self, r, c) == set_index(self, r, c, 0).err # "IndexOutOfBounds"

\* C17: for every coordinate pair (r, c) that set_index accepts, after
\* set_index(r, c, v) index(r, c) is v, index(r', c') is unchanged for every
\* other accepted pair, the stored buffer differs from the former one at one
\* element only, and cols(), rows() and is_transpose are unchanged.
SetIndexFrame ==
    (op.name = "set_index" /\ ret.err = "none") =>
        /\ index(m, op.r, op.c) = OkVal(op.k)
        /\ \A r \in Idx, c \in Idx :
              (Accepted(pre, r, c) /\ <<r, c>> # <<op.r, op.c>>) =>
                  index(m, r, c) = index(pre, r, c)
        /\ Len(m.matrix_flatt) = Len(pre.matrix_flatt)
        /\ Cardinality({i \in 1..Len(pre.matrix_flatt) :
                            m.matrix_flatt[i] # pre.matrix_flatt[i]}) <= 1
        /\ cols(m) = cols(pre)
        /\ rows(m) = rows(pre)
        /\ m.is_transpose = pre.is_transpose

\* C18: for every coordinate pair that passes the bounds check of index,
\* respectively of set_index, the backing offset is below cols*rows, so
\* index and set_index fail with IndexOutOfBounds or not at all.
BoundsSound ==
    op.name \in {"index", "set_index"} =>
        /\ ret.err \in {"none", "IndexOutOfBounds"}
        /\ ret.err # "IndexOutOfBounds" =>
              swap_row(pre, op.r, op.c) * pre.rows + swap_col(pre, op.r, op.c)
                  < pre.cols * pre.rows

====
